---- MODULE Spec2Model ----
(***************************************************************************)
(* A model of download_youtube.py: the JSON history store, the download    *)
(* function download_video_advanced, the two batch orchestrators, the      *)
(* search normalisation and the Streamlit session state of the "Search &   *)
(* Download" tab (search_results, selected_videos).                        *)
(*                                                                         *)
(* Every run of the Streamlit script is one action of Spec: the handler of *)
(* the button that was pressed followed by the rest of the script, of      *)
(* which the per-row checkbox loop (lines 463-481) is the only part that   *)
(* writes state.  A batch download is the exception: each iteration of its *)
(* loop is one step, so that every call of download_video_advanced is one  *)
(* step of the model.                                                      *)
(*                                                                         *)
(* SpecHistory is Spec without the search tab.  SpecConc is two sessions    *)
(* that run save_download_history against the same file, statement by      *)
(* statement.  SpecHook applies the progress hook to one status dict.       *)
(***************************************************************************)
EXTENDS Integers, Sequences, FiniteSets, TLC

VARIABLES
    file,                 \* progress/download_history.json
    search_results,       \* st.session_state.search_results
    selected_videos,      \* st.session_state.selected_videos
    call,                 \* what the latest call of download_video_advanced did
    status,               \* the latest st.* message of a handler or orchestrator
    batch,                \* the running batch orchestrator: its locals
    sess,                 \* SpecConc: the locals of each concurrent session
    progress              \* SpecHook: the latest progress event and what the hook
                          \* sent to its container

vars == <<file, search_results, selected_videos, call, status, batch, sess, progress>>

----------------------------------------------------------------------------
(* Bounds *)

MaxHistory == 2      \* records the history file may hold
MaxResults == 2      \* entries one search may return
MaxSelected == 2     \* entries selected_videos may hold
MaxBatch == 2        \* URLs typed in the batch text area
MaxRounds == 2       \* SpecConc: downloads each concurrent session completes
MaxBytes == 2        \* SpecHook: the largest byte count of a progress event

----------------------------------------------------------------------------
(* Python values: str, int and None, and a dict as a function whose        *)
(* DOMAIN is the set of keys present.                                      *)

PyStr(s) == [t |-> "str", s |-> s, n |-> 0]
PyInt(n) == [t |-> "int", s |-> "", n |-> n]
PyNone == [t |-> "NoneType", s |-> "", n |-> 0]

\* dict.get(key, default)
Get(d, key, default) == IF key \in DOMAIN d THEN d[key] ELSE default

\* What ydl.extract_info returns for a URL.  The dict the model's library
\* gives has a title, a page URL and a duration, reports the filesize as None
\* (yt-dlp does when the size is not known in advance) and has no uploader
\* and no ext key.  InfoEarlier is the dict of a download of an earlier run of
\* the program, whose record the history file may already hold.
InfoPartial ==
    [title |-> PyStr("Song"), webpage_url |-> PyStr("https://www.youtube.com/watch?v=a"),
     duration |-> PyInt(125), filesize |-> PyNone]
InfoEarlier ==
    [title |-> PyStr("Clip"), webpage_url |-> PyStr("https://youtu.be/c"),
     duration |-> PyInt(61), uploader |-> PyStr("Band"),
     filesize |-> PyInt(2048), ext |-> PyStr("mp4")]
Infos == {InfoPartial}

\* datetime.now().isoformat()
Times == {"2024-05-01T10:00:00"}

----------------------------------------------------------------------------
(* json.dump / json.load of the history: a list of dicts of str, int and   *)
(* None becomes an array of objects of JSON strings, numbers and null.     *)

\* a variant of JsonValue that writes every value as its str(): None becomes
\* the string "None" (C6 depends on null being kept apart from strings)
JsonValue_str(v) ==
    CASE v.t = "str" -> [j |-> "string", s |-> v.s, n |-> 0]
      [] v.t = "int" -> [j |-> "number", s |-> "", n |-> v.n]
      [] v.t = "NoneType" -> [j |-> "string", s |-> "None", n |-> 0]

JsonValue(v) ==
    CASE v.t = "str" -> [j |-> "string", s |-> v.s, n |-> 0]
      [] v.t = "int" -> [j |-> "number", s |-> "", n |-> v.n]
      [] v.t = "NoneType" -> [j |-> "null", s |-> "", n |-> 0]

PyValue(w) ==
    CASE w.j = "string" -> PyStr(w.s)
      [] w.j = "number" -> PyInt(w.n)
      [] w.j = "null" -> PyNone

JsonObject(d) == [k \in DOMAIN d |-> JsonValue(d[k])]
PyDict(o) == [k \in DOMAIN o |-> PyValue(o[k])]

json_dump(history) == [i \in 1..Len(history) |-> JsonObject(history[i])]
json_load(text) == [i \in 1..Len(text) |-> PyDict(text[i])]

\* The file: absent, holding a JSON array, or empty (zero bytes: what
\* open(METADATA_FILE, "w") leaves until the dump is written).
NoFile == [st |-> "absent", text |-> <<>>]
EmptyFile == [st |-> "empty", text |-> <<>>]
JsonFile(text) == [st |-> "json", text |-> text]

\* a variant of write_history that persists only the newest record, as the
\* history tab shows only a tail of the list (C4 depends on the whole list
\* being written back)
write_history_tail(history) ==
    JsonFile(json_dump(IF history = <<>> THEN <<>> ELSE <<history[Len(history)]>>))

\* with open(METADATA_FILE, "w") as f: json.dump(history, f, indent=2)
write_history(history) == JsonFile(json_dump(history))

\* load_download_history(): raises json.JSONDecodeError on an empty file
load_download_history(f) ==
    CASE f.st = "absent" -> [raised |-> FALSE, value |-> <<>>]
      [] f.st = "json" -> [raised |-> FALSE, value |-> json_load(f.text)]
      [] f.st = "empty" -> [raised |-> TRUE, value |-> <<>>]

\* the dict built at lines 30-38
download_record(video_info, now) ==
    [title |-> Get(video_info, "title", PyStr("Unknown")),
     url |-> Get(video_info, "webpage_url", PyStr("")),
     duration |-> Get(video_info, "duration", PyInt(0)),
     uploader |-> Get(video_info, "uploader", PyStr("Unknown")),
     download_date |-> PyStr(now),
     file_size |-> Get(video_info, "filesize", PyInt(0)),
     format |-> Get(video_info, "ext", PyStr("unknown"))]

\* a variant of history_append: history.insert(0, download_record) (C5
\* depends on the record going to the end of the loaded list)
history_insert_front(history, record) == <<record>> \o history

\* history.append(download_record)
history_append(history, record) == Append(history, record)

\* a variant of save_download_history that does not load the file first and
\* writes a list of the new record alone (C1 depends on the load)
save_without_load(f, video_info, now) ==
    [raised |-> FALSE, file |-> write_history(<<download_record(video_info, now)>>)]

\* save_download_history(video_info), run without interruption
save_download_history(f, video_info, now) ==
    LET loaded == load_download_history(f) IN
    IF loaded.raised
    THEN [raised |-> TRUE, file |-> f]
    ELSE [raised |-> FALSE,
          file |-> write_history(
                       history_append(loaded.value, download_record(video_info, now)))]

\* a variant of clear_history that opens the file for writing and dumps
\* nothing (C7 depends on the dump of the empty list)
clear_without_dump == EmptyFile

\* the Clear History button: json.dump([], f)
clear_history == write_history(<<>>)

\* the history as the program reads it (no reader runs while the file is empty
\* in a single session)
History(f) == load_download_history(f).value

----------------------------------------------------------------------------
(* download_video_advanced.  lib is what the external library does during  *)
(* this call: whether extract_info and download raise, the info dict, and  *)
(* the clock.                                                              *)

\* The clock is read only when a record is saved, and the info dict is used
\* only there, so the outcomes that fail carry fixed ones.
LibOutcomes ==
    {[extract |-> "raise", transfer |-> "ok", video_info |-> InfoPartial, now |-> ""],
     [extract |-> "ok", transfer |-> "raise", video_info |-> InfoPartial, now |-> ""]}
    \cup [extract : {"ok"}, transfer : {"ok"}, video_info : Infos, now : Times]

\* What a call did: whether extract_info and download were called and raised,
\* the return value, the messages sent to progress_container, and the file as
\* it was when the call began.
NoCall ==
    [made |-> FALSE, url |-> <<>>, extract |-> "none", transfer |-> "none",
     ret |-> "none", sink |-> <<>>, video_info |-> InfoPartial, now |-> "",
     before |-> NoFile]

CallResult(url, f, lib, extract, transfer, ret, sink) ==
    [made |-> TRUE, url |-> url, extract |-> extract, transfer |-> transfer,
     ret |-> ret, sink |-> sink, video_info |-> lib.video_info, now |-> lib.now,
     before |-> f]

\* a variant of on_extract_error whose handler does not return, so that the
\* transfer is started (C2 depends on the return of line 129)
on_extract_error_no_return(url, f, lib, progress_container) ==
    [file |-> f,
     call |-> CallResult(url, f, lib, "raise", "raise", "False",
                  <<"error: Error getting video info", "error: Download failed">>)]

\* lines 124-129: the metadata fetch and its handler
on_extract_error(url, f, lib, progress_container) ==
    [file |-> f,
     call |-> CallResult(url, f, lib, "raise", "not_started", "False",
                  IF progress_container THEN <<"error: Error getting video info">>
                  ELSE <<>>)]

\* a variant of on_download_error without the try block: the exception
\* leaves the function (C9 depends on the handler)
on_download_error_uncaught(url, f, lib, transfer, progress_container) ==
    [file |-> f, call |-> CallResult(url, f, lib, "ok", transfer, "raised", <<>>)]

\* lines 172-175: the handler of the second try block
on_download_error(url, f, lib, transfer, progress_container) ==
    [file |-> f,
     call |-> CallResult(url, f, lib, "ok", transfer, "False",
                  IF progress_container THEN <<"error: Download failed">>
                  ELSE <<>>)]

\* a variant of download_video_advanced that records the download before the
\* transfer has run (C12 depends on the save coming after ydl.download)
download_video_advanced_save_first(url, f, lib, progress_container) ==
    IF lib.extract = "raise"
    THEN on_extract_error(url, f, lib, progress_container)
    ELSE LET saved == save_download_history(f, lib.video_info, lib.now) IN
         IF saved.raised \/ lib.transfer = "raise"
         THEN [file |-> saved.file,
               call |-> on_download_error(url, f, lib, lib.transfer, progress_container).call]
         ELSE [file |-> saved.file,
               call |-> CallResult(url, f, lib, "ok", "ok", "True", <<>>)]

download_video_advanced(url, f, lib, progress_container) ==
    IF lib.extract = "raise"
    THEN on_extract_error(url, f, lib, progress_container)
    ELSE IF lib.transfer = "raise"
    THEN on_download_error(url, f, lib, "raise", progress_container)
    ELSE LET saved == save_download_history(f, lib.video_info, lib.now) IN
         IF saved.raised
         THEN on_download_error(url, f, lib, "ok", progress_container)
         ELSE [file |-> saved.file,
               call |-> CallResult(url, f, lib, "ok", "ok", "True", <<>>)]

----------------------------------------------------------------------------
(* Search.  A URL is a sequence of string pieces, so that the f-string of  *)
(* line 232 is a concatenation and startswith('http') a test of the first  *)
(* piece.                                                                  *)

WatchPrefix == "https://www.youtube.com/watch?v="
HttpPieces == {"http://", "https://", WatchPrefix}

\* f"https://www.youtube.com/watch?v={id}"
watch_url(id) == <<WatchPrefix, id>>

\* url.startswith('http')
startswith_http(url) == Len(url) > 0 /\ url[1] \in HttpPieces

\* The flat entries the library can return.  A flat entry always has a title
\* here (the model tells entries apart by it); its id and its url may be
\* missing, and its url may be one that does not start with http.
EntryNoUrl == [id |-> "a", title |-> "t1"]
EntryRelUrl == [id |-> "b", title |-> "t2", url |-> <<"/watch?v=", "b">>]
EntryHttpUrl == [id |-> "c", title |-> "t3", url |-> <<"https://", "youtu.be/c">>]
EntryNoId == [title |-> "t4", url |-> <<"vimeo:", "4">>]
EntryBare == [title |-> "t5"]
Catalog == {EntryNoUrl, EntryRelUrl, EntryHttpUrl, EntryNoId, EntryBare}

RECURSIVE SeqsUpTo(_, _)
SeqsUpTo(S, n) ==
    IF n = 0 THEN {<<>>}
    ELSE LET shorter == SeqsUpTo(S, n - 1) IN
         shorter \cup {Append(q, e) : q \in shorter, e \in S}

\* what ydl.extract_info gives for a search: an exception, or entries
LibSearches ==
    {[raised |-> TRUE, entries |-> <<>>]}
    \cup {[raised |-> FALSE, entries |-> q] : q \in SeqsUpTo(Catalog, MaxResults)}

\* entry.get('id') is truthy
has_id(entry) == "id" \in DOMAIN entry /\ entry.id # ""

\* not entry.get('url') or not entry['url'].startswith('http')
needs_url(entry) ==
    \/ ~("url" \in DOMAIN entry)
    \/ entry.url = <<>>
    \/ ~startswith_http(entry.url)

\* a variant of ensure_url that fills in only a missing or empty url and
\* keeps one that does not start with http (C10 depends on the startswith test)
ensure_url_if_missing(entry) ==
    IF has_id(entry) /\ (~("url" \in DOMAIN entry) \/ entry.url = <<>>)
    THEN [k \in DOMAIN entry \cup {"url"} |->
             IF k = "url" THEN watch_url(entry.id) ELSE entry[k]]
    ELSE entry

\* lines 229-232, for one entry
ensure_url(entry) ==
    IF has_id(entry) /\ needs_url(entry)
    THEN [k \in DOMAIN entry \cup {"url"} |->
             IF k = "url" THEN watch_url(entry.id) ELSE entry[k]]
    ELSE entry

search_youtube_advanced(lib) ==
    IF lib.raised
    THEN [videos |-> <<>>, error |-> TRUE]
    ELSE [videos |-> [i \in 1..Len(lib.entries) |-> ensure_url(lib.entries[i])],
          error |-> FALSE]

\* lines 257-259 (and 506-508): the URL an entry is downloaded from
resolve_url(video_data) ==
    IF "url" \in DOMAIN video_data /\ video_data.url # <<>>
    THEN video_data.url
    ELSE watch_url(Get(video_data, "id", ""))

----------------------------------------------------------------------------
(* The per-row checkbox loop, lines 463-481.  checked[i] is what           *)
(* st.checkbox returns for row i in this run; the model lets it be any     *)
(* boolean, whatever the widget's default.                                 *)

\* video.get('id', f'video_{i}'), i counted from 0
row_id(video, i) == IF "id" \in DOMAIN video THEN video.id ELSE "video_" \o ToString(i - 1)

\* v.get('id') == video_id
id_is(v, video_id) == "id" \in DOMAIN v /\ v.id = video_id

keep_others(selected, video_id) == SelectSeq(selected, LAMBDA v : ~id_is(v, video_id))

update_selection(selected, video, video_id, is_checked) ==
    LET is_selected == \E j \in 1..Len(selected) : id_is(selected[j], video_id) IN
    IF is_checked /\ ~is_selected THEN Append(selected, video)
    ELSE IF ~is_checked /\ is_selected THEN keep_others(selected, video_id)
    ELSE selected

RECURSIVE render_rows(_, _, _, _)
render_rows(results, selected, checked, i) ==
    IF i > Len(results) THEN selected
    ELSE render_rows(results,
                     update_selection(selected, results[i], row_id(results[i], i), checked[i]),
                     checked, i + 1)

\* `if st.session_state.search_results:` ... the loop
display_results(results, selected, checked) == render_rows(results, selected, checked, 1)

Checkboxes(results) == [1..Len(results) -> BOOLEAN]

----------------------------------------------------------------------------
(* Messages, and the locals of a batch orchestrator.                       *)

Msg(kind) == [kind |-> kind, ok |-> 0, bad |-> 0]
Tally(kind, ok, bad) == [kind |-> kind, ok |-> ok, bad |-> bad]

IdleBatch ==
    [pc |-> "idle", kind |-> "none", targets |-> <<>>, i |-> 0,
     successful_downloads |-> 0, failed_downloads |-> 0, attempts |-> <<>>]

\* lines 182-186 and 245-249: the locals before the loop
start_batch(kind, targets) ==
    [pc |-> "running", kind |-> kind, targets |-> targets, i |-> 0,
     successful_downloads |-> 0, failed_downloads |-> 0, attempts |-> <<>>]

\* the URL of the j-th target: the URL itself (download_multiple_videos), or
\* the entry's resolved URL (download_selected_videos)
target_url(b, j) ==
    IF b.kind = "selected" THEN resolve_url(b.targets[j]) ELSE b.targets[j]

\* a variant of count_result that leaves the loop at the first failure (C3
\* depends on the loop going on)
count_result_break(b, url, ret) ==
    IF ret = "True"
    THEN [b EXCEPT !.i = @ + 1,
                   !.successful_downloads = @ + 1,
                   !.attempts = Append(@, [url |-> url, ret |-> ret])]
    ELSE [b EXCEPT !.i = Len(b.targets),
                   !.failed_downloads = @ + 1,
                   !.attempts = Append(@, [url |-> url, ret |-> ret])]

\* lines 193-196 and 261-264: one iteration's bookkeeping.  A call that raised
\* would leave the loop and the function.
count_result(b, url, ret) ==
    IF ret = "raised"
    THEN [b EXCEPT !.pc = "aborted",
                   !.attempts = Append(@, [url |-> url, ret |-> ret])]
    ELSE [b EXCEPT !.i = @ + 1,
                   !.successful_downloads = IF ret = "True" THEN @ + 1 ELSE @,
                   !.failed_downloads = IF ret = "True" THEN @ ELSE @ + 1,
                   !.attempts = Append(@, [url |-> url, ret |-> ret])]

\* lines 199-202 and 270-273
final_summary(b) ==
    Tally(IF b.kind = "selected" THEN "Selected downloads complete"
          ELSE "Batch download complete",
          b.successful_downloads, b.failed_downloads)

\* what the user can type as a URL
UserUrls == {watch_url("a"), <<"https://", "youtu.be/c">>}

Sessions == {1, 2}

\* the clock a session reads at line 35: two downloads do not end at the same
\* microsecond
session_now(s) == IF s = 1 THEN "2024-05-01T10:00:00" ELSE "2024-05-01T10:00:07"
IdleSession ==
    [pc |-> "idle", history |-> <<>>, video_info |-> InfoPartial, now |-> "",
     ret |-> "none", rounds |-> 0]

\* no progress event has been delivered
NoEvent == [fired |-> FALSE, d |-> [status |-> "none"], calls |-> <<>>]

\* the history file a session can find when it starts
InitFiles == {NoFile, write_history(<<download_record(InfoEarlier, "2024-04-30T09:00:00")>>)}

\* a download is recorded only while the history has room (a bound of the model)
HasRoom(f, lib) ==
    (lib.extract = "ok" /\ lib.transfer = "ok") => Len(History(f)) < MaxHistory

----------------------------------------------------------------------------
(* One session: the script runs of the Streamlit app.                      *)

Init ==
    /\ file \in InitFiles
    /\ search_results = <<>>
    /\ selected_videos = <<>>
    /\ call = NoCall
    /\ status = Msg("none")
    /\ batch = IdleBatch
    /\ sess = [s \in Sessions |-> IdleSession]
    /\ progress = NoEvent

\* the script is not inside a batch loop
Interactive == batch.pc # "running"

\* the rest of the script after a handler: the checkbox loop of tab 2
ShowResults(results, selected) ==
    \E checked \in Checkboxes(results) :
        /\ selected_videos' = display_results(results, selected, checked)
        /\ Len(selected_videos') <= MaxSelected

\* a checkbox with this key was drawn by the previous run, so the widget has
\* a value of its own; a checkbox drawn for the first time returns its
\* default, value=is_selected
WasShown(video_id) ==
    \E k \in 1..Len(search_results) : row_id(search_results[k], k) = video_id

\* the rest of the script after a search that found videos: the selection has
\* been reset, so a row can come out checked only through a widget that the
\* previous results already had
ShowNewResults(results) ==
    \E checked \in Checkboxes(results) :
        /\ \A i \in 1..Len(results) : checked[i] => WasShown(row_id(results[i], i))
        /\ selected_videos' = display_results(results, <<>>, checked)
        /\ Len(selected_videos') <= MaxSelected

\* a run in which no button is pressed (a checkbox or another widget changed)
Rerun ==
    /\ Interactive
    /\ ShowResults(search_results, selected_videos)
    /\ call' = NoCall
    /\ status' = Msg("none")
    /\ batch' = IdleBatch
    /\ UNCHANGED <<file, search_results, sess, progress>>

\* lines 416-429, with a non-empty search term
Search ==
    /\ Interactive
    /\ \E lib \in LibSearches :
         LET found == search_youtube_advanced(lib) IN
         IF found.videos = <<>>
         THEN /\ search_results' = <<>>
              /\ status' = Msg(IF found.error THEN "Search error" ELSE "No videos found")
              /\ ShowResults(<<>>, selected_videos)
         ELSE /\ search_results' = found.videos
              /\ status' = Msg("Found results")
              /\ ShowNewResults(found.videos)
    /\ call' = NoCall
    /\ batch' = IdleBatch
    /\ UNCHANGED <<file, sess, progress>>

\* lines 447-449: the button, st.rerun(), and the run that follows
SelectAll ==
    /\ Interactive
    /\ search_results # <<>>
    /\ ShowResults(search_results, search_results)
    /\ call' = NoCall
    /\ status' = Msg("none")
    /\ batch' = IdleBatch
    /\ UNCHANGED <<file, search_results, sess, progress>>

\* lines 451-453
DeselectAll ==
    /\ Interactive
    /\ search_results # <<>>
    /\ ShowResults(search_results, <<>>)
    /\ call' = NoCall
    /\ status' = Msg("none")
    /\ batch' = IdleBatch
    /\ UNCHANGED <<file, search_results, sess, progress>>

\* lines 455-458 and 241-249: Download Selected enters download_selected_videos
DownloadSelected ==
    /\ Interactive
    /\ search_results # <<>>
    /\ Len(selected_videos) > 0
    /\ IF selected_videos = <<>>
       THEN batch' = IdleBatch /\ status' = Msg("No videos selected for download")
       ELSE batch' = start_batch("selected", selected_videos) /\ status' = Msg("none")
    /\ call' = NoCall
    /\ UNCHANGED <<file, search_results, selected_videos, sess, progress>>

\* lines 543-549: Download All enters download_multiple_videos (tab 2 has
\* been rendered before tab 3 runs)
DownloadAll ==
    /\ Interactive
    /\ \E urls \in SeqsUpTo(UserUrls, MaxBatch) :
         IF urls # <<>>
         THEN batch' = start_batch("urls", urls) /\ status' = Msg("Starting batch download")
         ELSE batch' = IdleBatch /\ status' = Msg("Please enter at least one URL")
    /\ ShowResults(search_results, selected_videos)
    /\ call' = NoCall
    /\ UNCHANGED <<file, search_results, sess, progress>>

\* one iteration of the loop of lines 188-196 or 251-267
BatchStep ==
    /\ batch.pc = "running"
    /\ batch.i < Len(batch.targets)
    /\ \E lib \in LibOutcomes :
         LET url == target_url(batch, batch.i + 1)
             done == download_video_advanced(url, file, lib, TRUE)
         IN /\ HasRoom(file, lib)
            /\ file' = done.file
            /\ call' = done.call
            /\ batch' = count_result(batch, url, done.call.ret)
    /\ UNCHANGED <<search_results, selected_videos, status, sess, progress>>

\* the summary after the loop, and the rest of the script
BatchFinish ==
    /\ batch.pc = "running"
    /\ batch.i = Len(batch.targets)
    /\ status' = final_summary(batch)
    /\ batch' = IdleBatch
    /\ call' = NoCall
    /\ IF batch.kind = "selected"
       THEN ShowResults(search_results, selected_videos)
       ELSE UNCHANGED selected_videos
    /\ UNCHANGED <<file, search_results, sess, progress>>

\* lines 359-396: Download Now with a URL typed in
QuickDownload ==
    /\ Interactive
    /\ \E quick_url \in UserUrls, shown \in {"ok", "raise"}, lib \in LibOutcomes :
         IF shown = "raise"
         THEN /\ status' = Msg("Error")
              /\ call' = NoCall
              /\ file' = file
         ELSE LET done == download_video_advanced(quick_url, file, lib, TRUE) IN
              /\ HasRoom(file, lib)
              /\ status' = Msg("none")
              /\ call' = done.call
              /\ file' = done.file
    /\ ShowResults(search_results, selected_videos)
    /\ batch' = IdleBatch
    /\ UNCHANGED <<search_results, sess, progress>>

\* lines 505-518: the download button of row i, inside the checkbox loop
RowDownload ==
    /\ Interactive
    /\ \E i \in 1..Len(search_results), lib \in LibOutcomes :
         LET done == download_video_advanced(resolve_url(search_results[i]), file, lib, TRUE) IN
         /\ HasRoom(file, lib)
         /\ call' = done.call
         /\ file' = done.file
    /\ ShowResults(search_results, selected_videos)
    /\ status' = Msg("Starting download")
    /\ batch' = IdleBatch
    /\ UNCHANGED <<search_results, sess, progress>>

\* lines 606-623: the button is drawn only when the history is not empty
ClearHistory ==
    /\ Interactive
    /\ History(file) # <<>>
    /\ file' = clear_history
    /\ ShowResults(search_results, selected_videos)
    /\ call' = NoCall
    /\ status' = Msg("none")
    /\ batch' = IdleBatch
    /\ UNCHANGED <<search_results, sess, progress>>

Next ==
    \/ Rerun
    \/ Search
    \/ SelectAll
    \/ DeselectAll
    \/ DownloadSelected
    \/ DownloadAll
    \/ BatchStep
    \/ BatchFinish
    \/ QuickDownload
    \/ RowDownload
    \/ ClearHistory

Spec == Init /\ [][Next]_vars

\* The app used without its search tab: the runs of tabs 1, 3 and 5.  Every
\* behaviour of SpecHistory is one of Spec.  The file is written only by
\* download_video_advanced and by Clear History, and neither reads the session
\* state of the search tab (the URL of a call does not decide its outcome), so
\* the history file goes through the same changes under both.
NextHistory ==
    \/ Rerun
    \/ QuickDownload
    \/ DownloadAll
    \/ BatchStep
    \/ BatchFinish
    \/ ClearHistory

SpecHistory == Init /\ [][NextHistory]_vars

TypeOK ==
    /\ file.st \in {"absent", "json"}
    /\ Len(selected_videos) <= MaxSelected
    /\ Len(search_results) <= MaxResults
    /\ batch.pc \in {"idle", "running"}

----------------------------------------------------------------------------
(* Two sessions (two browser tabs, or two server processes) that have each *)
(* fetched the metadata and finished the transfer, and now run line 169,   *)
(* save_download_history, against the same file.  The statements of the    *)
(* function are the steps: the load (line 29), building and appending the  *)
(* record (30-39), opening the file for writing, which truncates it (41),  *)
(* and the dump (42).                                                      *)

InitConc ==
    /\ file \in InitFiles
    /\ search_results = <<>>
    /\ selected_videos = <<>>
    /\ call = NoCall
    /\ status = Msg("none")
    /\ batch = IdleBatch
    /\ sess = [s \in Sessions |-> IdleSession]
    /\ progress = NoEvent

\* the transfer of a download has succeeded: the session reaches line 169
CBegin(s) ==
    /\ sess[s].pc \in {"idle", "done"}
    /\ sess[s].rounds < MaxRounds
    /\ \E video_info \in Infos :
         sess' = [sess EXCEPT ![s] =
                     [pc |-> "load", history |-> <<>>, video_info |-> video_info,
                      now |-> session_now(s), ret |-> "none",
                      rounds |-> sess[s].rounds + 1]]
    /\ UNCHANGED <<file, search_results, selected_videos, call, status, batch, progress>>

\* lines 29-39; a JSONDecodeError is caught at line 172 and the call returns False
CLoad(s) ==
    /\ sess[s].pc = "load"
    /\ LET loaded == load_download_history(file) IN
       IF loaded.raised
       THEN sess' = [sess EXCEPT ![s].pc = "done", ![s].ret = "False"]
       ELSE sess' = [sess EXCEPT
                        ![s].pc = "open",
                        ![s].history =
                            history_append(loaded.value,
                                download_record(sess[s].video_info, sess[s].now))]
    /\ UNCHANGED <<file, search_results, selected_videos, call, status, batch, progress>>

\* line 41: open(METADATA_FILE, "w")
COpen(s) ==
    /\ sess[s].pc = "open"
    /\ file' = EmptyFile
    /\ sess' = [sess EXCEPT ![s].pc = "dump"]
    /\ UNCHANGED <<search_results, selected_videos, call, status, batch, progress>>

\* line 42 and the return True of line 170
CDump(s) ==
    /\ sess[s].pc = "dump"
    /\ file' = write_history(sess[s].history)
    /\ sess' = [sess EXCEPT ![s].pc = "done", ![s].ret = "True"]
    /\ UNCHANGED <<search_results, selected_videos, call, status, batch, progress>>

NextConc == \E s \in Sessions : CBegin(s) \/ CLoad(s) \/ COpen(s) \/ CDump(s)

SpecConc == InitConc /\ [][NextConc]_vars

----------------------------------------------------------------------------
(* DownloadProgress.create_progress_hook, lines 93-117.  The library calls *)
(* progress_hook(d) with a status dict d.  A string is a sequence of       *)
(* pieces, so that strip() and os.path.basename do something; a byte count *)
(* is an int or None (yt-dlp documents total_bytes and                     *)
(* total_bytes_estimate as None when unknown), and a key may be missing.   *)

ByteCounts == {PyInt(n) : n \in 0..MaxBytes}

\* every key but status may be missing from a status dict
OptionalKeys ==
    {"filename", "_percent_str", "_speed_str", "_eta_str",
     "downloaded_bytes", "total_bytes", "total_bytes_estimate"}

\* the dict r without the optional keys outside present
WithKeys(r, present) == [k \in {"status"} \cup present |-> r[k]]

\* the status dicts the library may deliver: total_bytes is the size the
\* server announced, or None when it announced none
ProgressEvents ==
    {WithKeys(r, present) :
        r \in [status : {"downloading", "finished", "error"},
               filename : {<<"downloads", "Song.mp4">>},
               _percent_str : {<<" ", "50.0%">>},
               _speed_str : {<<"1.0MiB/s", " ">>},
               _eta_str : {<<"00:05">>},
               downloaded_bytes : ByteCounts,
               total_bytes : {PyNone} \cup (ByteCounts \ {PyInt(0)}),
               total_bytes_estimate : {PyNone} \cup ByteCounts],
        present \in SUBSET OptionalKeys}

\* os.path.basename(path): the last component
basename(path) == IF path = <<>> THEN <<>> ELSE <<path[Len(path)]>>

\* str.strip(): leading and trailing blanks removed
RECURSIVE lstrip(_)
lstrip(str) ==
    IF str # <<>> /\ str[1] = " " THEN lstrip(Tail(str)) ELSE str

RECURSIVE rstrip(_)
rstrip(str) ==
    IF str # <<>> /\ str[Len(str)] = " " THEN rstrip(SubSeq(str, 1, Len(str) - 1)) ELSE str

strip(str) == rstrip(lstrip(str))

\* the truth value of an int or None
truthy(v) == v.t = "int" /\ v.n # 0

\* min(downloaded / total, 1.0), as a fraction
Fraction(num, den) == [num |-> num, den |-> den]
min_with_one(downloaded, total) ==
    IF downloaded > total THEN Fraction(1, 1) ELSE Fraction(downloaded, total)

\* a call of container.progress, container.info or container.success
ContainerCall(method, value, text) == [method |-> method, value |-> value, text |-> text]

\* line 102: d.get('total_bytes', d.get('total_bytes_estimate', 0))
total_of(d) == Get(d, "total_bytes", Get(d, "total_bytes_estimate", PyInt(0)))

\* lines 106-108
update_progress_bar(d, filename) ==
    LET downloaded == Get(d, "downloaded_bytes", PyInt(0))
        total == total_of(d)
    IN IF truthy(total) /\ total.n > 0
       THEN <<ContainerCall("progress", min_with_one(downloaded.n, total.n),
                            <<"downloading: ">> \o filename)>>
       ELSE <<>>

\* lines 111-113
status_text(d, filename) ==
    <<"**Downloading:** ">> \o filename
        \o <<" | Progress: ">> \o strip(Get(d, "_percent_str", <<"0%">>))
        \o <<" | Speed: ">> \o strip(Get(d, "_speed_str", <<"0KB/s">>))
        \o <<" | ETA: ">> \o strip(Get(d, "_eta_str", <<"Unknown">>))

\* progress_hook(d): the calls it makes on its container, in order
progress_hook(d) ==
    LET filename == basename(Get(d, "filename", <<"Unknown">>)) IN
    IF d.status = "downloading"
    THEN update_progress_bar(d, filename)
             \o <<ContainerCall("info", Fraction(0, 1), status_text(d, filename))>>
    ELSE IF d.status = "finished"
    THEN <<ContainerCall("success", Fraction(0, 1),
                         <<"**Download Complete:** ">> \o filename)>>
    ELSE <<>>

\* the library is about to deliver a status dict d
InitHook ==
    /\ file = NoFile
    /\ search_results = <<>>
    /\ selected_videos = <<>>
    /\ call = NoCall
    /\ status = Msg("none")
    /\ batch = IdleBatch
    /\ sess = [s \in Sessions |-> IdleSession]
    /\ \E d \in ProgressEvents : progress = [fired |-> FALSE, d |-> d, calls |-> <<>>]

\* progress_hook(d) runs
ProgressEvent ==
    /\ ~progress.fired
    /\ progress' = [fired |-> TRUE, d |-> progress.d, calls |-> progress_hook(progress.d)]
    /\ UNCHANGED <<file, search_results, selected_videos, call, status, batch, sess>>

NextHook == ProgressEvent

SpecHook == InitHook /\ [][NextHook]_vars

----------------------------------------------------------------------------
(* Properties.  call.made holds exactly in the states that follow a call of *)
(* download_video_advanced: every other step resets call.                  *)

\* h2 is h1 with exactly one record added at the end
ExtendsByOne(h1, h2) ==
    /\ Len(h2) = Len(h1) + 1
    /\ SubSeq(h2, 1, Len(h1)) = h1

\* the number of attempts of a batch that did not return True
Failures(attempts) == Cardinality({j \in 1..Len(attempts) : attempts[j].ret # "True"})

\* the entry as the library returned it
RawEntry(e) == CHOOSE r \in Catalog : r.title = e.title

\* the raw entry has no fully-qualified URL
LacksDirectUrl(r) == needs_url(r)

\* C1: when the metadata fetch and the transfer both succeed,
\* download_video_advanced returns True and the history after the call is
\* the history before it plus one record, the one built from the fetched
\* metadata, at the end.
C1_SuccessAppendsOne ==
    (call.made /\ call.extract = "ok" /\ call.transfer = "ok")
        => /\ call.ret = "True"
           /\ ExtendsByOne(History(call.before), History(file))
           /\ History(file) =
                 Append(History(call.before), download_record(call.video_info, call.now))

C1_Witness ==
    /\ call.made
    /\ call.extract = "ok"
    /\ call.transfer = "ok"
    /\ call.ret = "True"
    /\ Len(History(file)) = 2

\* C2: when the metadata fetch fails, download_video_advanced returns False,
\* never starts the transfer and leaves the history file as it was.
C2_InfoFailureAborts ==
    (call.made /\ call.extract = "raise")
        => /\ call.ret = "False"
           /\ call.transfer = "not_started"
           /\ file = call.before

C2_Witness ==
    /\ call.made
    /\ call.extract = "raise"
    /\ call.ret = "False"
    /\ Len(History(file)) > 0

\* C3: a batch of n targets makes exactly n download attempts, in list
\* order, never leaving the loop early, and its summary reports n-k successes
\* and k failures, k being the number of attempts that failed.
C3_BatchTally ==
    [][/\ batch'.pc # "aborted"
       /\ Len(batch'.attempts) = batch'.i
       /\ (batch.pc = "running" /\ batch'.pc = "idle")
            => LET n == Len(batch.targets)
                   k == Failures(batch.attempts)
               IN /\ Len(batch.attempts) = n
                  /\ \A j \in 1..n : batch.attempts[j].url = target_url(batch, j)
                  /\ status' = Tally(status'.kind, n - k, k)
                  /\ status'.kind \in {"Batch download complete",
                                       "Selected downloads complete"}]_vars

C3_Witness ==
    /\ status.kind = "Selected downloads complete"
    /\ status.ok = 1
    /\ status.bad = 1

\* C4: every step leaves the persisted history unchanged, or extends it by
\* exactly one record at the end, or, only in the Clear History handler,
\* replaces it with the empty sequence.
C4_AppendOnly ==
    [][\/ History(file') = History(file)
       \/ ExtendsByOne(History(file), History(file'))
       \/ (ClearHistory /\ History(file') = <<>>)]_vars

C4_Witness ==
    /\ Len(History(file)) = 2
    /\ History(file)[1] # History(file)[2]
    /\ ~call.made
    /\ batch.pc = "idle"

\* C5: two concurrent writers can lose an update.  Each writes back the
\* whole sequence it loaded plus its own record, so once both have completed
\* the file is the sequence of whichever wrote last, and holds the other's
\* record only if the last writer loaded after the other had written.
C5_LastWriterWins ==
    (\A s \in Sessions : sess[s].pc = "done" /\ sess[s].ret = "True")
        => \E s \in Sessions :
              /\ History(file) = sess[s].history
              /\ sess[s].history # <<>>
              /\ sess[s].history[Len(sess[s].history)] =
                     download_record(sess[s].video_info, sess[s].now)

\* both appends completed, and the record of session 1 is nowhere in the file
C5_Witness ==
    /\ \A s \in Sessions : sess[s].pc = "done" /\ sess[s].ret = "True"
    /\ download_record(sess[1].video_info, sess[1].now)
         # download_record(sess[2].video_info, sess[2].now)
    /\ \A j \in 1..Len(History(file)) :
          History(file)[j] # download_record(sess[1].video_info, sess[1].now)

\* C6: after save_download_history(r) the file loads, without error, to a
\* sequence whose last element is the record just built and whose earlier
\* elements are the records stored before.
C6_RoundTrip ==
    (call.made /\ call.ret = "True")
        => LET loaded == load_download_history(file) IN
           /\ ~loaded.raised
           /\ loaded.value # <<>>
           /\ loaded.value[Len(loaded.value)] =
                  download_record(call.video_info, call.now)
           /\ SubSeq(loaded.value, 1, Len(loaded.value) - 1) = History(call.before)

C6_Witness ==
    /\ call.made
    /\ call.ret = "True"
    /\ call.video_info = InfoPartial
    /\ Len(History(file)) = 2
    /\ History(file)[2].file_size = PyNone

\* C7: after the Clear History handler the history loads to the empty
\* sequence, whatever it held before.
C7_ClearThenLoad ==
    [][ClearHistory
         => /\ ~load_download_history(file').raised
            /\ load_download_history(file').value = <<>>]_vars

\* Only Clear History writes the empty array: a save always writes a record.
C7_Witness ==
    /\ file = JsonFile(<<>>)
    /\ call = NoCall
    /\ load_download_history(file).value = <<>>

\* C8: selected_videos never holds two entries with the same id.
C8_NoDuplicateIds ==
    \A i, j \in 1..Len(selected_videos) :
        (i # j /\ "id" \in DOMAIN selected_videos[i] /\ "id" \in DOMAIN selected_videos[j])
            => selected_videos[i].id # selected_videos[j].id

\* C9: every call of download_video_advanced returns True or False, never
\* raises into the orchestrator, returns False whenever the metadata fetch or
\* the transfer failed, and every False comes with an error message in the
\* progress sink.
C9_FailuresCaught ==
    /\ batch.pc # "aborted"
    /\ call.made =>
         /\ call.ret \in {"True", "False"}
         /\ (call.extract = "raise" \/ call.transfer = "raise") => call.ret = "False"
         /\ call.ret = "False" =>
               \E m \in 1..Len(call.sink) :
                   call.sink[m] \in {"error: Error getting video info",
                                     "error: Download failed"}

C9_Witness ==
    /\ batch.pc = "running"
    /\ call.made
    /\ call.transfer = "raise"
    /\ call.ret = "False"
    /\ batch.failed_downloads = 1

TotalKnown(d) ==
    \E k \in {"total_bytes", "total_bytes_estimate"} :
        k \in DOMAIN d /\ d[k].t = "int" /\ d[k].n > 0

Emitted(method) == {m \in 1..Len(progress.calls) : progress.calls[m].method = method}

\* C11: on a downloading event the hook sends a status line to its container
\* and, whenever a total byte count (exact or estimate) is known and positive,
\* also a progress value, which lies in [0,1]; on a finished event it sends a
\* completion notice.
C11_ProgressReporter ==
    progress.fired =>
        /\ progress.d.status = "downloading" =>
              /\ Emitted("info") # {}
              /\ TotalKnown(progress.d) => Emitted("progress") # {}
              /\ \A m \in Emitted("progress") :
                    LET v == progress.calls[m].value IN
                    v.den > 0 /\ 0 <= v.num /\ v.num <= v.den
        /\ progress.d.status = "finished" => Emitted("success") # {}

\* What the hook does instead: the exact total decides whenever the dict has
\* the key.  A progress value is sent exactly when total_bytes is known and
\* positive, or the key is missing and the estimate is known and positive.
ProgressSentWhenExactTotalDecides ==
    (progress.fired /\ progress.d.status = "downloading") =>
        LET d == progress.d IN
        /\ Emitted("info") # {}
        /\ (Emitted("progress") # {}) <=>
              \/ "total_bytes" \in DOMAIN d /\ d.total_bytes.t = "int" /\ d.total_bytes.n > 0
              \/ /\ ~("total_bytes" \in DOMAIN d)
                 /\ "total_bytes_estimate" \in DOMAIN d
                 /\ d.total_bytes_estimate.t = "int"
                 /\ d.total_bytes_estimate.n > 0

\* C12: a record is created only by a download that completed.  When the
\* metadata fetch succeeds and the transfer fails, download_video_advanced
\* returns False and the history file is exactly as it was before the call;
\* and a call after which the history differs has returned True.
C12_TransferFailureKeepsHistory ==
    /\ (call.made /\ call.extract = "ok" /\ call.transfer = "raise")
          => /\ call.ret = "False"
             /\ file = call.before
             /\ History(file) = History(call.before)
    /\ (call.made /\ History(file) # History(call.before)) => call.ret = "True"

C12_Witness ==
    /\ call.made
    /\ call.extract = "ok"
    /\ call.transfer = "raise"
    /\ call.ret = "False"
    /\ batch.pc = "idle"
    /\ Len(History(file)) = 1
    /\ file = call.before

\* the entry is one of the current search results
InResults(v) == \E i \in 1..Len(search_results) : search_results[i] = v

\* C13: the selection is always a subset of the current search results:
\* every entry of selected_videos is an entry of search_results, whatever
\* searches, Select All, Deselect All and checkbox toggles came before.
C13_SelectionWithinResults ==
    \A j \in 1..Len(selected_videos) : InResults(selected_videos[j])

\* What the code keeps: while results are shown the selection is within
\* them, and every target of download_selected_videos is a current result.
SelectionWithinShownResults ==
    /\ search_results # <<>> => C13_SelectionWithinResults
    /\ (batch.pc = "running" /\ batch.kind = "selected")
          => \A j \in 1..Len(batch.targets) : InResults(batch.targets[j])

====
